---- MODULE Spec2Model ----
(***************************************************************************)
(* A model of elfmalloc's AVec<T, A> (src/elfmalloc/src/vec_alloc.rs): a   *)
(* Vec-like container over liballoc's RawVec<T, A>.  The container is the  *)
(* pair (buf, len); the backing store buf is the triple (cap, mem, a),     *)
(* where mem is the content of the cap slots found at buf.ptr().           *)
(*                                                                         *)
(* A slot holds the bits of an element, [id, val], or Uninit.  The bits    *)
(* stay in memory after the element was moved out or destroyed: which      *)
(* elements are initialized is the ghost set live, and the drop_in_place   *)
(* calls and the release of the block made by the last operation are the   *)
(* events of log.  The specifications that follow a container over its     *)
(* whole life keep three more records: born is what the constructor was     *)
(* given and what it left, placed is the set of the elements ever written   *)
(* into the container, and disposed tells, for each element, the ways it    *)
(* was disposed of, in order: handed out by "pop", destroyed by "resize",   *)
(* destroyed by "drop".                                                     *)
(***************************************************************************)
EXTENDS Integers, Sequences, FiniteSets, TLC

\* ---------------------------------------------------------------- bounds
MaxElems == 3      \* elements ever created (pushed or extended)
MaxVal == 2        \* element values are 1..MaxVal
MaxCap == 8        \* slots the allocator can hand out at most in one block
MaxArg == 3        \* largest small argument of reserve / resize / index
MaxSrc == 2        \* longest source sequence of extend
UsizeBits == 8     \* width of usize in the model
LowMem == 2        \* slots the allocator can hand out when memory is short

\* ------------------------------------------------------ program constants
ElemSize == 4      \* mem::size_of::<T>() of the elements the tests push
FirstCap == 4      \* RawVec::double on an unallocated buffer

UsizeMax == 2^UsizeBits - 1
Values == 1..MaxVal
Allocs == {"Heap", "DynamicAlloc", "SharedAlloc"}
Avails == {LowMem, MaxCap}
Args == (0..MaxArg) \cup {UsizeMax}

Uninit == [id |-> 0, val |-> 0]
Elem(i, x) == [id |-> i, val |-> x]

Max(a, b) == IF a >= b THEN a ELSE b
WrappingSub(a, b) == (a - b) % (UsizeMax + 1)

VARIABLES len, buf, live, log, pc, last, hist, pushSeq, popSeq, nextId,
          other, cmp, born, placed, disposed

vars == <<len, buf, live, log, pc, last, hist, pushSeq, popSeq, nextId,
          other, cmp, born, placed, disposed>>

\* ------------------------------------------------- the allocator capability
\* A request for n slots succeeds iff the heap has that much room.
AllocOk(n, avail) == n <= avail

\* ------------------------------------------------------------------ RawVec
RawVecNew(a) == [cap |-> 0, mem |-> <<>>, a |-> a]

Res(st, b, called) == [st |-> st, buf |-> b, alloc |-> called]

\* alloc / realloc to n >= cap slots: the old content is kept, the rest is raw
Grown(b, n) ==
  [b EXCEPT !.cap = n, !.mem = b.mem \o [i \in 1..(n - b.cap) |-> Uninit]]

\* realloc to n <= cap slots
Shrunk(b, n) == [b EXCEPT !.cap = n, !.mem = SubSeq(b.mem, 1, n)]

GrowTo(b, new_cap, avail) ==
  IF new_cap * ElemSize > UsizeMax THEN Res("CapacityOverflow", b, FALSE)
  ELSE IF ~AllocOk(new_cap, avail) THEN Res("OutOfMemory", b, TRUE)
  ELSE Res("ok", Grown(b, new_cap), TRUE)

RawVecDouble(b, avail) ==
  LET new_cap == IF b.cap = 0 THEN FirstCap ELSE 2 * b.cap
  IN  IF ~AllocOk(new_cap, avail) THEN Res("OutOfMemory", b, TRUE)
      ELSE Res("ok", Grown(b, new_cap), TRUE)

\* reserve adding the two counts with wrap-around
RawVecReserveWrapping(b, used_cap, needed_extra_cap, avail) ==
  IF WrappingSub(b.cap, used_cap) >= needed_extra_cap THEN Res("ok", b, FALSE)
  ELSE GrowTo(b, Max(b.cap * 2,
                     (used_cap + needed_extra_cap) % (UsizeMax + 1)), avail)

RawVecReserve(b, used_cap, needed_extra_cap, avail) ==
  IF WrappingSub(b.cap, used_cap) >= needed_extra_cap THEN Res("ok", b, FALSE)
  ELSE IF used_cap + needed_extra_cap > UsizeMax
       THEN Res("CapacityOverflow", b, FALSE)
  ELSE GrowTo(b, Max(b.cap * 2, used_cap + needed_extra_cap), avail)

RawVecReserveExact(b, used_cap, needed_extra_cap, avail) ==
  IF WrappingSub(b.cap, used_cap) >= needed_extra_cap THEN Res("ok", b, FALSE)
  ELSE IF used_cap + needed_extra_cap > UsizeMax
       THEN Res("CapacityOverflow", b, FALSE)
  ELSE GrowTo(b, used_cap + needed_extra_cap, avail)

\* shrink_to_fit that never gives the block back
RawVecShrinkKeepsBlock(b, amount, avail) ==
  IF b.cap < amount THEN Res("ShrinkLarger", b, FALSE)
  ELSE IF amount # 0 /\ b.cap # amount
       THEN IF ~AllocOk(amount, avail) THEN Res("OutOfMemory", b, TRUE)
            ELSE Res("ok", Shrunk(b, amount), TRUE)
  ELSE Res("ok", b, FALSE)

RawVecShrinkToFit(b, amount, avail) ==
  IF b.cap < amount THEN Res("ShrinkLarger", b, FALSE)
  ELSE IF amount = 0 THEN Res("ok", Shrunk(b, 0), b.cap > 0)
  ELSE IF b.cap # amount
       THEN IF ~AllocOk(amount, avail) THEN Res("OutOfMemory", b, TRUE)
            ELSE Res("ok", Shrunk(b, amount), TRUE)
  ELSE Res("ok", b, FALSE)

\* -------------------------------------------------------------------- AVec
\* A container value: the fields of AVec, the ghost state of its elements,
\* and the outcome of the operation that produced it.
AVec(l, b, lv, lg) ==
  [len |-> l, buf |-> b, live |-> lv, log |-> lg,
   st |-> "ok", alloc |-> FALSE, ret |-> <<>>]

Self == AVec(len, buf, live, <<>>)

Default(a) == AVec(0, RawVecNew(a), {}, <<>>)

\* the slice made of all the slots of the buffer
DerefToCap(s) == SubSeq(s.buf.mem, 1, s.buf.cap)

\* &**self : the slice of the first len slots
Deref(s) == SubSeq(s.buf.mem, 1, s.len)

\* the values of the live-element view
View(s) == [i \in 1..s.len |-> s.buf.mem[i].val]

\* ptr::drop_in_place(self.buf.ptr().offset(ix))
DropInPlace(s, ix) ==
  LET e == IF ix < s.buf.cap THEN s.buf.mem[ix + 1] ELSE Uninit
  IN  [s EXCEPT !.log = Append(@, [ix |-> ix, id |-> e.id]),
                !.live = @ \ {e.id}]

\* push without `self.len += 1`
push_keeps_len(s, val, avail) ==
  LET d == IF s.len = s.buf.cap THEN RawVecDouble(s.buf, avail)
           ELSE Res("ok", s.buf, FALSE)
  IN  IF d.st # "ok" THEN [s EXCEPT !.st = d.st, !.alloc = @ \/ d.alloc]
      ELSE [s EXCEPT !.buf = [d.buf EXCEPT !.mem[s.len + 1] = val],
                     !.live = @ \cup {val.id},
                     !.alloc = @ \/ d.alloc]

\* push that counts its element before it grows the buffer
push_counts_first(s, val, avail) ==
  LET d == IF s.len = s.buf.cap THEN RawVecDouble(s.buf, avail)
           ELSE Res("ok", s.buf, FALSE)
  IN  IF d.st # "ok"
      THEN [s EXCEPT !.st = d.st, !.alloc = @ \/ d.alloc, !.len = s.len + 1]
      ELSE [s EXCEPT !.buf = [d.buf EXCEPT !.mem[s.len + 1] = val],
                     !.len = s.len + 1,
                     !.live = @ \cup {val.id},
                     !.alloc = @ \/ d.alloc]

\* push that doubles the buffer one element before it is full
push_grows_early(s, val, avail) ==
  LET d == IF s.len + 1 >= s.buf.cap THEN RawVecDouble(s.buf, avail)
           ELSE Res("ok", s.buf, FALSE)
  IN  IF d.st # "ok" THEN [s EXCEPT !.st = d.st, !.alloc = @ \/ d.alloc]
      ELSE [s EXCEPT !.buf = [d.buf EXCEPT !.mem[s.len + 1] = val],
                     !.len = s.len + 1,
                     !.live = @ \cup {val.id},
                     !.alloc = @ \/ d.alloc]

push(s, val, avail) ==
  LET d == IF s.len = s.buf.cap THEN RawVecDouble(s.buf, avail)
           ELSE Res("ok", s.buf, FALSE)
  IN  IF d.st # "ok" THEN [s EXCEPT !.st = d.st, !.alloc = @ \/ d.alloc]
      ELSE IF s.len >= d.buf.cap THEN [s EXCEPT !.st = "OutOfBoundsWrite"]
      ELSE [s EXCEPT !.buf = [d.buf EXCEPT !.mem[s.len + 1] = val],
                     !.len = s.len + 1,
                     !.live = @ \cup {val.id},
                     !.alloc = @ \/ d.alloc]

\* pop that reads the slot at the old length, before the decrement
pop_reads_past(s) ==
  IF s.len = 0 THEN [s EXCEPT !.ret = <<>>]
  ELSE LET e == IF s.len < s.buf.cap THEN s.buf.mem[s.len + 1] ELSE Uninit
       IN  [s EXCEPT !.len = s.len - 1, !.ret = <<e>>, !.live = @ \ {e.id}]

\* pop that hands out the first element instead of the last
pop_front(s) ==
  IF s.len = 0 THEN [s EXCEPT !.ret = <<>>]
  ELSE LET e == s.buf.mem[1]
       IN  [s EXCEPT !.len = s.len - 1, !.ret = <<e>>, !.live = @ \ {e.id}]

\* pop without `self.len -= 1`
pop_keeps_len(s) ==
  IF s.len = 0 THEN [s EXCEPT !.ret = <<>>]
  ELSE LET e == s.buf.mem[s.len]
       IN  [s EXCEPT !.ret = <<e>>, !.live = @ \ {e.id}]

pop(s) ==
  IF s.len = 0 THEN [s EXCEPT !.ret = <<>>]
  ELSE LET e == s.buf.mem[s.len]
       IN  [s EXCEPT !.len = s.len - 1, !.ret = <<e>>, !.live = @ \ {e.id}]

\* reserve that forgets the elements the container holds
reserve_from_zero(s, extra_bytes, avail) ==
  LET d == RawVecReserve(s.buf, 0, extra_bytes, avail)
  IN  [s EXCEPT !.buf = d.buf, !.st = d.st, !.alloc = @ \/ d.alloc]

\* reserve through the exact reservation of the buffer
reserve_exactly(s, extra_bytes, avail) ==
  LET d == RawVecReserveExact(s.buf, s.len, extra_bytes, avail)
  IN  [s EXCEPT !.buf = d.buf, !.st = d.st, !.alloc = @ \/ d.alloc]

reserve(s, extra_bytes, avail) ==
  LET d == RawVecReserve(s.buf, s.len, extra_bytes, avail)
  IN  [s EXCEPT !.buf = d.buf, !.st = d.st, !.alloc = @ \/ d.alloc]

\* the loop of resize destroying the slot before it decrements the length
RECURSIVE ResizeLoopDropFirst(_, _)
ResizeLoopDropFirst(s, new_cap) ==
  IF s.len > new_cap
  THEN ResizeLoopDropFirst([DropInPlace(s, s.len) EXCEPT !.len = s.len - 1],
                           new_cap)
  ELSE s

\* one turn of the loop of resize, with its two statements swapped
ResizeStepDropFirst(s, first) ==
  IF first THEN DropInPlace(s, s.len - 1) ELSE [s EXCEPT !.len = s.len - 1]

\* One turn of the loop of resize, statement by statement: first
\* `self.len -= 1`, then drop_in_place of the slot at offset self.len
ResizeStep(s, first) ==
  IF first THEN [s EXCEPT !.len = s.len - 1] ELSE DropInPlace(s, s.len)

RECURSIVE ResizeLoop(_, _)
ResizeLoop(s, new_cap) ==
  IF s.len > new_cap
  THEN ResizeLoop(DropInPlace([s EXCEPT !.len = s.len - 1], s.len - 1), new_cap)
  ELSE s

\* resize that takes the slots it reserved for elements
resize_sets_len(s, new_cap, avail) ==
  IF new_cap = s.len THEN s
  ELSE IF new_cap > s.len
       THEN LET t == reserve(s, new_cap - s.len, avail)
            IN  IF t.st = "ok" THEN [t EXCEPT !.len = new_cap] ELSE t
  ELSE LET t == ResizeLoop(s, new_cap)
           d == RawVecShrinkToFit(t.buf, new_cap, avail)
       IN  [t EXCEPT !.buf = d.buf, !.st = d.st, !.alloc = @ \/ d.alloc]

\* resize that keeps the block it has
resize_keeps_block(s, new_cap, avail) ==
  IF new_cap = s.len THEN s
  ELSE IF new_cap > s.len THEN reserve(s, new_cap - s.len, avail)
  ELSE ResizeLoop(s, new_cap)

resize(s, new_cap, avail) ==
  IF new_cap = s.len THEN s
  ELSE IF new_cap > s.len THEN reserve(s, new_cap - s.len, avail)
  ELSE LET t == ResizeLoop(s, new_cap)
           d == RawVecShrinkToFit(t.buf, new_cap, avail)
       IN  [t EXCEPT !.buf = d.buf, !.st = d.st, !.alloc = @ \/ d.alloc]

RECURSIVE ExtendLoop(_, _, _)
ExtendLoop(s, iter, avail) ==
  IF iter = <<>> \/ s.st # "ok" THEN s
  ELSE ExtendLoop(push(s, Head(iter), avail), Tail(iter), avail)

\* extend that takes only as many items as the size hint announced
extend_trusts_hint(s, iter, lower_bound, avail) ==
  LET d == RawVecReserveExact(s.buf, s.len, lower_bound, avail)
      t == [s EXCEPT !.buf = d.buf, !.st = d.st, !.alloc = @ \/ d.alloc]
      n == IF lower_bound < Len(iter) THEN lower_bound ELSE Len(iter)
  IN  ExtendLoop(t, SubSeq(iter, 1, n), avail)

extend(s, iter, lower_bound, avail) ==
  LET d == RawVecReserveExact(s.buf, s.len, lower_bound, avail)
      t == [s EXCEPT !.buf = d.buf, !.st = d.st, !.alloc = @ \/ d.alloc]
  IN  ExtendLoop(t, iter, avail)

\* with_capacity that reserves nothing
with_capacity_lazy(a, cap, avail) == Default(a)

with_capacity(a, cap, avail) == reserve(Default(a), cap, avail)

\* the loop of drop running over the capacity instead of the length
RECURSIVE DropLoopToCap(_, _)
DropLoopToCap(s, i) ==
  IF i < s.buf.cap THEN DropLoopToCap(DropInPlace(s, i), i + 1) ELSE s

RECURSIVE DropLoop(_, _)
DropLoop(s, i) ==
  IF i < s.len THEN DropLoop(DropInPlace(s, i), i + 1) ELSE s

\* Drop::drop without its loop: only the block is released
drop_forgets(s) ==
  IF s.buf.cap > 0
  THEN [s EXCEPT !.log = Append(@, [ix |-> -1, id |-> 0]), !.alloc = TRUE]
  ELSE s

\* Drop::drop, then the drop of the field buf, which releases the block
Released == [ix |-> -1, id |-> 0]

drop(s) ==
  LET t == DropLoop(s, 0)
  IN  IF t.buf.cap > 0
      THEN [t EXCEPT !.log = Append(@, Released), !.alloc = TRUE]
      ELSE t

\* index checked against the capacity
index_checks_cap(s, ix) ==
  IF ~(ix < s.buf.cap) THEN [s EXCEPT !.st = "IndexOutOfBounds"]
  ELSE [s EXCEPT !.ret = <<s.buf.mem[ix + 1]>>]

\* Index<usize> / IndexMut<usize>
index(s, ix) ==
  IF ~(ix < s.len) THEN [s EXCEPT !.st = "IndexOutOfBounds"]
  ELSE [s EXCEPT !.ret = <<s.buf.mem[ix + 1]>>]

index_mut(s, ix, x) ==
  IF ~(ix < s.len) THEN [s EXCEPT !.st = "IndexOutOfBounds"]
  ELSE [s EXCEPT !.buf.mem[ix + 1].val = x,
                 !.ret = <<[s.buf.mem[ix + 1] EXCEPT !.val = x]>>]

\* Index<Range>, Index<RangeFrom>, Index<RangeTo>, Index<RangeFull>:
\* forwarded to the slice &**self
RangeStart(kind, from) ==
  IF kind \in {"Range", "RangeFrom"} THEN from ELSE 0

RangeEnd(s, kind, to) ==
  IF kind \in {"Range", "RangeTo"} THEN to ELSE Len(Deref(s))

index_range(s, kind, from, to) ==
  LET slice == Deref(s)
      lo == RangeStart(kind, from)
      hi == RangeEnd(s, kind, to)
  IN  IF lo > hi \/ hi > Len(slice) THEN [s EXCEPT !.st = "IndexOutOfBounds"]
      ELSE [s EXCEPT !.ret = SubSeq(slice, lo + 1, hi)]

\* PartialEq::eq / ne : comparison of the two slices, element by element
SliceEq(x, y) ==
  Len(x) = Len(y) /\ \A i \in 1..Len(x) : x[i].val = y[i].val

eq(s, o) == SliceEq(Deref(s), Deref(o))

ne(s, o) == ~SliceEq(Deref(s), Deref(o))

\* ------------------------------------------------------------ the program
NoOp == [op |-> "none", a |-> 0, b |-> 0, kind |-> "", src |-> <<>>,
         ret |-> <<>>, st |-> "ok", alloc |-> FALSE]

NoCmp == [done |-> FALSE, eq |-> FALSE, ne |-> FALSE, qe |-> FALSE,
          refl |-> FALSE]

Fatal == {"OutOfMemory", "OutOfBoundsWrite"}

\* The sources extend can be given: runs of at most MaxSrc consecutive
\* values (as the tests' 0..1000), starting anywhere and wrapping around
Run(start, n) == [i \in 1..n |-> ((start + i - 2) % MaxVal) + 1]

Sources == {Run(start, n) : start \in Values, n \in 0..MaxSrc}

\* The elements a source yields, numbered from nextId
Items(src) == [i \in 1..Len(src) |-> Elem(nextId + i - 1, src[i])]

\* born, placed and disposed where they are not kept
NoBorn == [op |-> "new", n |-> 0, len |-> 0, cap |-> 0]
NoneDisposed == [id \in 1..MaxElems |-> <<>>]

\* The operation's outcome r becomes the state, and last tells what it was.
Commit(r, o) ==
  /\ len' = r.len
  /\ buf' = r.buf
  /\ live' = r.live
  /\ log' = r.log
  /\ last' = [o EXCEPT !.ret = r.ret, !.st = r.st, !.alloc = r.alloc]
  /\ pc' = IF r.st \in Fatal THEN "aborted" ELSE "idle"
  /\ UNCHANGED <<other, cmp, born, placed, disposed>>

Forget == hist' = "other" /\ pushSeq' = <<>> /\ popSeq' = <<>>

\* new() and with_capacity(n), for each allocator the container can be built on
Init ==
  \E a \in {"SharedAlloc"}, n \in 0..MaxArg, fresh \in BOOLEAN :
    LET r == IF fresh THEN Default(a) ELSE with_capacity(a, n, MaxCap)
    IN  /\ len = r.len
        /\ buf = r.buf
        /\ live = r.live
        /\ log = r.log
        /\ pc = "idle"
        /\ last = [NoOp EXCEPT !.op = IF fresh THEN "new" ELSE "with_capacity",
                               !.a = IF fresh THEN 0 ELSE n,
                               !.alloc = r.alloc]
        /\ hist = "pushes"
        /\ pushSeq = <<>>
        /\ popSeq = <<>>
        /\ nextId = 1
        /\ other = Default("Heap")
        /\ cmp = NoCmp
        /\ born = NoBorn
        /\ placed = {}
        /\ disposed = NoneDisposed

Push(x, avail) ==
  /\ pc = "idle"
  /\ nextId <= MaxElems
  /\ LET r == push(Self, Elem(nextId, x), avail)
     IN  /\ Commit(r, [NoOp EXCEPT !.op = "push", !.a = x,
                                   !.src = <<Elem(nextId, x)>>])
         /\ IF hist = "pushes" /\ r.st = "ok"
            THEN /\ hist' = "pushes"
                 /\ pushSeq' = Append(pushSeq, x)
                 /\ popSeq' = popSeq
            ELSE IF hist = "pops" /\ last.ret # <<>> /\ r.st = "ok"
            THEN /\ hist' = "repush"
                 /\ pushSeq' = pushSeq
                 /\ popSeq' = popSeq
            ELSE Forget
  /\ nextId' = nextId + 1

Pop ==
  /\ pc = "idle"
  /\ LET r == pop(Self)
     IN  /\ Commit(r, [NoOp EXCEPT !.op = "pop"])
         /\ IF hist \in {"pushes", "pops"} /\ Len(popSeq) <= Len(pushSeq)
            THEN /\ hist' = "pops"
                 /\ pushSeq' = pushSeq
                 /\ popSeq' = Append(popSeq, [i \in 1..Len(r.ret) |-> r.ret[i].val])
            ELSE Forget
  /\ nextId' = nextId

Reserve(m, avail) ==
  /\ pc = "idle"
  /\ Commit(reserve(Self, m, avail), [NoOp EXCEPT !.op = "reserve", !.a = m])
  /\ Forget
  /\ nextId' = nextId

Resize(k, avail) ==
  /\ pc = "idle"
  /\ Commit(resize(Self, k, avail), [NoOp EXCEPT !.op = "resize", !.a = k])
  /\ Forget
  /\ nextId' = nextId

Extend(src, lower_bound, avail) ==
  /\ pc = "idle"
  /\ nextId + Len(src) <= MaxElems + 1
  /\ Commit(extend(Self, Items(src), lower_bound, avail),
            [NoOp EXCEPT !.op = "extend", !.a = lower_bound, !.src = Items(src)])
  /\ Forget
  /\ nextId' = nextId + Len(src)

IndexGet(ix) ==
  /\ pc = "idle"
  /\ Commit(index(Self, ix), [NoOp EXCEPT !.op = "index", !.a = ix])
  /\ Forget
  /\ nextId' = nextId

IndexSet(ix, x) ==
  /\ pc = "idle"
  /\ Commit(index_mut(Self, ix, x),
            [NoOp EXCEPT !.op = "index_mut", !.a = ix, !.b = x])
  /\ Forget
  /\ nextId' = nextId

IndexRange(kind, from, to) ==
  /\ pc = "idle"
  /\ Commit(index_range(Self, kind, from, to),
            [NoOp EXCEPT !.op = "index_range", !.kind = kind,
                         !.a = from, !.b = to])
  /\ Forget
  /\ nextId' = nextId

\* The container goes out of scope.
Drop ==
  /\ pc = "idle"
  /\ LET r == drop(Self)
     IN  /\ len' = r.len
         /\ buf' = r.buf
         /\ live' = r.live
         /\ log' = r.log
         /\ last' = [NoOp EXCEPT !.op = "drop", !.alloc = r.alloc]
  /\ pc' = "destroyed"
  /\ UNCHANGED <<hist, pushSeq, popSeq, nextId, other, cmp,
                 born, placed, disposed>>

Next ==
  \/ \E x \in Values, avail \in Avails : Push(x, avail)
  \/ Pop
  \/ \E m \in Args, avail \in Avails : Reserve(m, avail)
  \/ \E k \in Args, avail \in Avails : Resize(k, avail)
  \/ \E src \in Sources, lb \in 0..MaxSrc, avail \in Avails :
       Extend(src, lb, avail)
  \/ Drop

Spec == Init /\ [][Next]_vars

\* ------------------------------------------------- a container being indexed
\* A container that is pushed onto and popped, and read and written through
\* its indices in between.
NextIndex ==
  \/ \E x \in Values : Push(x, MaxCap)
  \/ Pop
  \/ \E ix \in Args : IndexGet(ix)
  \/ \E ix \in Args, x \in Values : IndexSet(ix, x)
  \/ \E from \in 0..MaxArg, to \in 0..MaxArg : IndexRange("Range", from, to)
  \/ \E from \in 0..MaxArg : IndexRange("RangeFrom", from, 0)
  \/ \E to \in 0..MaxArg : IndexRange("RangeTo", 0, to)
  \/ IndexRange("RangeFull", 0, 0)

SpecIndex == Init /\ [][NextIndex]_vars

\* The state of the container between two operations
TypeOK ==
  /\ len \in 0..UsizeMax
  /\ buf.cap \in 0..MaxCap
  /\ Len(buf.mem) = buf.cap
  /\ buf.a \in Allocs
  /\ pc \in {"idle", "aborted", "destroyed",
            "shrinking", "dropping", "unwinding"}

\* ------------------------------------------- two containers, to be compared
\* The container self, built on any allocator, and the container other, built
\* on the system heap, are each put through operations of their own, and
\* compared after each of them.  Elements are numbered by their position.
InitEq ==
  \E a1 \in Allocs, a2 \in {"Heap"} :
    /\ len = 0
    /\ buf = RawVecNew(a1)
    /\ live = {}
    /\ log = <<>>
    /\ pc = "idle"
    /\ last = [NoOp EXCEPT !.op = "new"]
    /\ hist = "other"
    /\ pushSeq = <<>>
    /\ popSeq = <<>>
    /\ nextId = 1
    /\ other = Default(a2)
    /\ cmp = NoCmp
    /\ born = NoBorn
    /\ placed = {}
    /\ disposed = NoneDisposed

The(w) == IF w = "self" THEN Self ELSE other

\* self == other, self != other, other == self, self == self
Compare(s, o) ==
  [done |-> TRUE, eq |-> eq(s, o), ne |-> ne(s, o), qe |-> eq(o, s),
   refl |-> eq(s, s)]

\* the operation's outcome r becomes the container w, and the two containers
\* are compared
Becomes(w, r) ==
  /\ r.st = "ok"
  /\ IF w = "self"
     THEN /\ len' = r.len
          /\ buf' = r.buf
          /\ live' = r.live
          /\ log' = <<>>
          /\ other' = other
          /\ cmp' = Compare(r, other)
     ELSE /\ other' = AVec(r.len, r.buf, r.live, <<>>)
          /\ cmp' = Compare(Self, r)
          /\ UNCHANGED <<len, buf, live, log>>
  /\ UNCHANGED <<pc, last, hist, pushSeq, popSeq, born, placed, disposed>>

EqPush(w, x) ==
  /\ nextId <= MaxElems
  /\ Becomes(w, push(The(w), Elem(The(w).len + 1, x), MaxCap))
  /\ nextId' = nextId + 1

EqPop(w) ==
  /\ Becomes(w, pop(The(w)))
  /\ nextId' = nextId

EqReserve(w, m) ==
  /\ Becomes(w, reserve(The(w), m, MaxCap))
  /\ nextId' = nextId

EqResize(w, k) ==
  /\ Becomes(w, resize(The(w), k, MaxCap))
  /\ nextId' = nextId

Both == {"self", "other"}

NextEq ==
  \/ \E w \in Both, x \in Values : EqPush(w, x)
  \/ \E w \in Both : EqPop(w)
  \/ \E w \in Both, m \in 0..MaxArg : EqReserve(w, m)
  \/ \E w \in Both, k \in 0..MaxArg : EqResize(w, k)

SpecEq == InitEq /\ [][NextEq]_vars

\* ------------------------------------------- a container with room reserved
\* A container built by with_capacity(n) and then only pushed onto and
\* extended.  born keeps n and what the constructor left, nextId - 1 is the
\* number of values it has been given, pushSeq the values it holds, and hist
\* stays "fill" as long as no source has reported a lower bound above the
\* number of items it went on to yield.
InitFill ==
  \E a \in Allocs, n \in 0..MaxArg :
    LET r == with_capacity(a, n, MaxCap)
    IN  /\ len = r.len
        /\ buf = r.buf
        /\ live = r.live
        /\ log = r.log
        /\ pc = "idle"
        /\ last = [NoOp EXCEPT !.op = "with_capacity", !.a = n,
                               !.alloc = r.alloc]
        /\ hist = "fill"
        /\ pushSeq = <<>>
        /\ popSeq = <<>>
        /\ nextId = 1
        /\ other = Default("Heap")
        /\ cmp = NoCmp
        /\ born = [op |-> "with_capacity", n |-> n,
                   len |-> r.len, cap |-> r.buf.cap]
        /\ placed = {}
        /\ disposed = NoneDisposed

FillPush(x, avail) ==
  /\ pc = "idle"
  /\ nextId <= MaxElems
  /\ LET r == push(Self, Elem(nextId, x), avail)
     IN  /\ Commit(r, [NoOp EXCEPT !.op = "push", !.a = x,
                                   !.src = <<Elem(nextId, x)>>])
         /\ pushSeq' = [i \in 1..r.len |-> r.buf.mem[i].val]
  /\ nextId' = nextId + 1
  /\ UNCHANGED <<hist, popSeq>>

FillExtend(src, lower_bound, avail) ==
  /\ pc = "idle"
  /\ nextId + Len(src) <= MaxElems + 1
  /\ LET r == extend(Self, Items(src), lower_bound, avail)
     IN  /\ Commit(r, [NoOp EXCEPT !.op = "extend", !.a = lower_bound,
                                   !.src = Items(src)])
         /\ pushSeq' = [i \in 1..r.len |-> r.buf.mem[i].val]
  /\ hist' = IF lower_bound > Len(src) THEN "other" ELSE hist
  /\ nextId' = nextId + Len(src)
  /\ UNCHANGED popSeq

NextFill ==
  \/ \E x \in Values, avail \in Avails : FillPush(x, avail)
  \/ \E src \in Sources, lb \in 0..MaxSrc, avail \in Avails :
       FillExtend(src, lb, avail)

SpecFill == InitFill /\ [][NextFill]_vars

\* ------------------------------------------- a container over its whole life
\* A new() container is pushed onto, popped, extended, reserved and resized,
\* and dropped in the end.  placed and disposed keep the account of its
\* elements.  A shrinking resize runs statement by statement: pc is
\* "shrinking" at the head of its loop and "dropping" between the two
\* statements of the loop's body.  The destructor of an element may panic:
\* the element counts as destroyed, the resize is cut short there, and the
\* container is "unwinding" until it is dropped or the panic is caught.

\* The ways the outcome r of the operation op disposed of the element id:
\* pop hands out the element it returns, drop_in_place destroys
Ways(r, op, id) ==
  (IF op = "pop" /\ r.ret # <<>> /\ r.ret[1].id = id THEN <<"pop">> ELSE <<>>)
    \o [j \in 1..Len(SelectSeq(r.log, LAMBDA e : e.id = id)) |->
          IF op = "resize" THEN "resize" ELSE "drop"]

\* the account of the elements, after the outcome r of the operation op
Account(r, op) ==
  /\ placed' = placed \cup r.live
  /\ disposed' = [id \in DOMAIN disposed |-> disposed[id] \o Ways(r, op, id)]

CommitLife(r, o) ==
  /\ len' = r.len
  /\ buf' = r.buf
  /\ live' = r.live
  /\ log' = r.log
  /\ last' = [o EXCEPT !.ret = r.ret, !.st = r.st, !.alloc = r.alloc]
  /\ pc' = IF r.st \in Fatal THEN "aborted" ELSE "idle"
  /\ Account(r, o.op)
  /\ UNCHANGED <<other, cmp, born, hist, pushSeq, popSeq>>

InitLife ==
  /\ len = 0
  /\ buf = RawVecNew("SharedAlloc")
  /\ live = {}
  /\ log = <<>>
  /\ pc = "idle"
  /\ last = [NoOp EXCEPT !.op = "new"]
  /\ hist = "other"
  /\ pushSeq = <<>>
  /\ popSeq = <<>>
  /\ nextId = 1
  /\ other = Default("Heap")
  /\ cmp = NoCmp
  /\ born = NoBorn
  /\ placed = {}
  /\ disposed = NoneDisposed

LifePush(x) ==
  /\ pc = "idle"
  /\ nextId <= MaxElems
  /\ CommitLife(push(Self, Elem(nextId, x), MaxCap),
                [NoOp EXCEPT !.op = "push", !.a = x,
                             !.src = <<Elem(nextId, x)>>])
  /\ nextId' = nextId + 1

LifePop ==
  /\ pc = "idle"
  /\ CommitLife(pop(Self), [NoOp EXCEPT !.op = "pop"])
  /\ nextId' = nextId

LifeReserve(m) ==
  /\ pc = "idle"
  /\ CommitLife(reserve(Self, m, MaxCap), [NoOp EXCEPT !.op = "reserve", !.a = m])
  /\ nextId' = nextId

LifeExtend(src, lower_bound) ==
  /\ pc = "idle"
  /\ nextId + Len(src) <= MaxElems + 1
  /\ CommitLife(extend(Self, Items(src), lower_bound, MaxCap),
                [NoOp EXCEPT !.op = "extend", !.a = lower_bound,
                             !.src = Items(src)])
  /\ nextId' = nextId + Len(src)

\* resize(k): at once when it does not shrink, else up to the head of its loop
LifeResize(k) ==
  /\ pc = "idle"
  /\ IF k >= len
     THEN CommitLife(resize(Self, k, MaxCap), [NoOp EXCEPT !.op = "resize", !.a = k])
     ELSE /\ last' = [NoOp EXCEPT !.op = "resize", !.a = k]
          /\ pc' = "shrinking"
          /\ log' = <<>>
          /\ UNCHANGED <<len, buf, live, other, cmp, born, hist, pushSeq,
                         popSeq, placed, disposed>>
  /\ nextId' = nextId

\* One statement of the body of the loop of resize.  The statement that
\* destroys an element may panic.
LifeResizeStep(panics) ==
  /\ pc \in {"shrinking", "dropping"}
  /\ pc = "shrinking" => len > last.a
  /\ LET t == ResizeStep(Self, pc = "shrinking")
     IN  /\ panics => t.log # <<>>
         /\ len' = t.len
         /\ buf' = t.buf
         /\ live' = t.live
         /\ log' = log \o t.log
         /\ Account(t, "resize")
  /\ pc' = IF panics THEN "unwinding"
           ELSE IF pc = "shrinking" THEN "dropping" ELSE "shrinking"
  /\ last' = IF panics THEN [last EXCEPT !.st = "Panic"] ELSE last
  /\ UNCHANGED <<other, cmp, born, hist, pushSeq, popSeq, nextId>>

\* the loop of resize is over: self.buf.shrink_to_fit(new_cap)
LifeResizeEnd(avail) ==
  /\ pc = "shrinking"
  /\ ~(len > last.a)
  /\ LET d == RawVecShrinkToFit(buf, last.a, avail)
     IN  /\ buf' = d.buf
         /\ last' = [last EXCEPT !.st = d.st, !.alloc = d.alloc]
         /\ pc' = IF d.st \in Fatal THEN "aborted" ELSE "idle"
  /\ UNCHANGED <<len, live, log, other, cmp, born, hist, pushSeq, popSeq,
                 nextId, placed, disposed>>

\* the panic that cut resize short is caught, and the container used again
LifeCatch ==
  /\ pc = "unwinding"
  /\ pc' = "idle"
  /\ UNCHANGED <<len, buf, live, log, last, other, cmp, born, hist, pushSeq,
                 popSeq, nextId, placed, disposed>>

\* The container goes out of scope, in the normal course or while unwinding.
LifeDrop ==
  /\ pc \in {"idle", "unwinding"}
  /\ LET r == drop(Self)
     IN  /\ len' = r.len
         /\ buf' = r.buf
         /\ live' = r.live
         /\ log' = r.log
         /\ last' = [NoOp EXCEPT !.op = "drop", !.alloc = r.alloc,
                                 !.kind = IF pc = "unwinding" THEN "unwinding"
                                          ELSE ""]
         /\ Account(r, "drop")
  /\ pc' = "destroyed"
  /\ UNCHANGED <<hist, pushSeq, popSeq, nextId, other, cmp, born>>

NextLife ==
  \/ \E x \in Values : LifePush(x)
  \/ LifePop
  \/ \E m \in 0..MaxArg : LifeReserve(m)
  \/ \E src \in Sources : \E lb \in {0, Len(src)} : LifeExtend(src, lb)
  \/ \E k \in 0..MaxArg : LifeResize(k)
  \/ \E panics \in BOOLEAN : LifeResizeStep(panics)
  \/ \E avail \in Avails : LifeResizeEnd(avail)
  \/ LifeCatch
  \/ LifeDrop

SpecLife == InitLife /\ [][NextLife]_vars

\* ------------------------------------------------------------- properties
Alive == pc \in {"idle", "aborted"}

SlotIds(from, to) == {buf.mem[i].id : i \in from..to}

\* C1: between operations, length <= capacity, every slot below length holds
\* an initialized element (each a different one), and no slot at or beyond
\* length holds an initialized element.
C1_LenCapLive ==
  Alive =>
    /\ len <= buf.cap
    /\ \A i \in 1..len : buf.mem[i] # Uninit /\ buf.mem[i].id \in live
    /\ \A i \in (len + 1)..buf.cap : buf.mem[i].id \notin live
    /\ Cardinality(SlotIds(1, len)) = len
    /\ live = SlotIds(1, len)

\* a pop left the bits of the element it moved out beyond the new length,
\* below the capacity, while other elements stay
C1_Witness ==
  /\ pc = "idle"
  /\ last.op = "pop"
  /\ len > 0
  /\ buf.cap > len
  /\ buf.mem[len + 1] # Uninit

\* C2: as long as a new empty container has only been pushed onto, its
\* live-element view is the sequence of the values pushed, in the order pushed
\* (so each push appended its value at index length, incremented length by
\* one and left the earlier elements alone), also across a reallocation.
C2_PushOrder ==
  (Alive /\ hist = "pushes") =>
    /\ len = Len(pushSeq)
    /\ View(Self) = pushSeq
    /\ \A i \in 1..len : buf.mem[i].id = nextId - 1 - (len - i)

\* the last push found the buffer full of elements and made it reallocate
C2_Witness ==
  /\ pc = "idle"
  /\ hist = "pushes"
  /\ last.op = "push"
  /\ last.alloc
  /\ len >= 2
  /\ pushSeq[1] # pushSeq[2]

\* the results of pushing the values pushSeq and then popping Len(popSeq) times
Reversed(seq) == [i \in 1..Len(seq) |-> seq[Len(seq) + 1 - i]]

\* C3: when n values were pushed onto an empty container and it is then
\* popped, the pops yield the values in the reverse of the order pushed, and
\* the pop after the n-th yields no element.
C3_PopsReverse ==
  hist = "pops" =>
    /\ Len(popSeq) <= Len(pushSeq) + 1
    /\ \A i \in 1..Len(popSeq) :
         popSeq[i] = IF i <= Len(pushSeq) THEN <<Reversed(pushSeq)[i]>>
                     ELSE <<>>

\* all of three pushed values, not all equal, were popped and one more pop
\* was made
C3_Witness ==
  /\ hist = "pops"
  /\ Len(pushSeq) = 3
  /\ pushSeq[1] # pushSeq[3]
  /\ Len(popSeq) = 4
  /\ last.op = "pop"

\* C4: pop on a container with length > 0 returns the element at index
\* length - 1, decrements length by one and leaves capacity and the elements
\* below alone, so that a push that follows puts its value at the index the
\* popped element had; pop on length 0 returns no element and changes
\* neither length nor capacity.
C4_PopFrame ==
  [][ /\ last'.op = "pop" =>
           IF len > 0
           THEN /\ last'.ret = <<buf.mem[len]>>
                /\ len' = len - 1
                /\ buf'.cap = buf.cap
                /\ Deref(Self)' = SubSeq(Deref(Self), 1, len - 1)
           ELSE /\ last'.ret = <<>>
                /\ len' = len
                /\ buf' = buf
      /\ (last.op = "pop" /\ last.ret # <<>> /\ last'.op = "push"
            /\ last'.st = "ok") =>
           /\ buf'.mem[len + 1] = last'.src[1]
           /\ buf.mem[len + 1] = last.ret[1]
           /\ len' = len + 1
    ]_vars

\* a value was pushed into the slot of the element that the pop before took
C4_Witness ==
  /\ hist = "repush"
  /\ last.op = "push"
  /\ Len(pushSeq) = 2
  /\ Len(popSeq) = 1
  /\ last.a # popSeq[1][1]
  /\ View(Self) = <<pushSeq[1], last.a>>

\* pushing each item of a sequence in order, with memory to spare
RECURSIVE PushAll(_, _)
PushAll(s, items) ==
  IF items = <<>> THEN s
  ELSE PushAll(push(s, Head(items), UsizeMax), Tail(items))

\* C5: an extend that completes leaves the live elements that pushing each
\* item of its source in order would have left, whatever lower bound the
\* source reported, also a bound below the number of items yielded.
C5_ExtendIsPushes ==
  [][ (last'.op = "extend" /\ last'.st = "ok") =>
        /\ Deref(Self)' = Deref(PushAll(Self, last'.src))
        /\ live' = PushAll(Self, last'.src).live
    ]_vars

\* extend added to a container with elements more items than the source
\* had announced, and had to grow the buffer
C5_Witness ==
  /\ last.op = "extend"
  /\ last.st = "ok"
  /\ last.a < Len(last.src)
  /\ last.alloc
  /\ len > Len(last.src)

\* C6: reserve(m) changes neither length nor the live elements nor their
\* order, whether it reallocates or not, and after it returns
\* capacity >= length + m.
C6_ReserveFrame ==
  [][ last'.op = "reserve" =>
        /\ len' = len
        /\ Deref(Self)' = Deref(Self)
        /\ live' = live
        /\ last'.st = "ok" => buf'.cap >= len + last'.a
    ]_vars

\* reserve reallocated the buffer of a container with elements
C6_Witness ==
  /\ last.op = "reserve"
  /\ last.st = "ok"
  /\ last.alloc
  /\ len >= 2
  /\ last.a > 0

\* the drop_in_place events of the slots from down to to + 1 .. from
DropsDown(from, to) ==
  [j \in 1..(from - to) |-> [ix |-> from - j, id |-> buf.mem[from - j + 1].id]]

\* the drop_in_place events of the slots 0 .. n - 1 in ascending order
DropsUp(n) == [j \in 1..n |-> [ix |-> j - 1, id |-> buf.mem[j].id]]

EventIds(events) == {events[j].id : j \in 1..Len(events)}

\* C7: resize(k) with k < length destroys the elements at the indices
\* [k, length), each once and in descending order of index, none below k,
\* and leaves length = k and the first k elements as the live elements.
C7_ResizeShrinks ==
  [][ (last'.op = "resize" /\ last'.a < len) =>
        /\ log' = DropsDown(len, last'.a)
        /\ EventIds(log') \subseteq live
        /\ Cardinality(EventIds(log')) = len - last'.a
        /\ live' = live \ EventIds(log')
        /\ len' = last'.a
        /\ Deref(Self)' = SubSeq(Deref(Self), 1, last'.a)
    ]_vars

\* resize destroyed two elements and left one
C7_Witness ==
  /\ last.op = "resize"
  /\ last.st = "ok"
  /\ Len(log) = 2
  /\ len = 1
  /\ Cardinality(live) = 1

\* C8: the destruction of a container destroys the elements at the indices
\* [0, length), each once and in ascending order of index, touches no slot at
\* or beyond length, and releases the block after that.
C8_DropAll ==
  [][ last'.op = "drop" =>
        /\ log' = DropsUp(len) \o (IF buf.cap > 0 THEN <<Released>> ELSE <<>>)
        /\ EventIds(DropsUp(len)) = live
        /\ Cardinality(live) = len
        /\ live' = {}
    ]_vars

\* a container with two elements and, beyond its length, the bits of an
\* element popped before, was destroyed
C8_Witness ==
  /\ pc = "destroyed"
  /\ len = 2
  /\ buf.cap > len
  /\ buf.mem[len + 1] # Uninit
  /\ Len(log) = 3

Unchanged == len' = len /\ buf' = buf /\ live' = live

UsesFrom(kind) == kind \in {"Range", "RangeFrom"}

UsesTo(kind) == kind \in {"Range", "RangeTo"}

\* C9: an indexed access is checked against length: an index >= length, and
\* a range with an endpoint beyond length, fail with IndexOutOfBounds and
\* leave the container as it was; an index < length yields the element at
\* that position of the live elements.
C9_IndexChecked ==
  [][ /\ last'.op = "index" =>
           /\ Unchanged
           /\ IF last'.a < len
              THEN last'.st = "ok" /\ last'.ret = <<Deref(Self)[last'.a + 1]>>
              ELSE last'.st = "IndexOutOfBounds"
      /\ last'.op = "index_mut" =>
           IF last'.a < len
           THEN /\ last'.st = "ok"
                /\ len' = len
                /\ buf'.cap = buf.cap
                /\ live' = live
                /\ last'.ret[1].id = Deref(Self)[last'.a + 1].id
                /\ Deref(Self)' = [Deref(Self) EXCEPT ![last'.a + 1].val = last'.b]
           ELSE last'.st = "IndexOutOfBounds" /\ Unchanged
      /\ last'.op = "index_range" =>
           /\ Unchanged
           /\ ((UsesFrom(last'.kind) /\ last'.a > len)
                 \/ (UsesTo(last'.kind) /\ last'.b > len)) =>
                last'.st = "IndexOutOfBounds"
           /\ last'.st = "ok" =>
                last'.ret = SubSeq(Deref(Self),
                                   (IF UsesFrom(last'.kind) THEN last'.a ELSE 0) + 1,
                                   IF UsesTo(last'.kind) THEN last'.b ELSE len)
    ]_vars

\* an index at or beyond the length but below the capacity was refused
C9_Witness ==
  /\ last.op = "index"
  /\ last.st = "IndexOutOfBounds"
  /\ last.a >= len
  /\ last.a < buf.cap
  /\ len > 0

\* C10: two containers compare equal iff their live-element views are equal
\* element by element, whatever their allocators, capacities and histories;
\* != is the negation of ==, and == is reflexive and symmetric.
C10_EqIsViewEq ==
  cmp.done =>
    /\ cmp.eq <=> (View(Self) = View(other))
    /\ cmp.ne <=> ~cmp.eq
    /\ cmp.qe <=> cmp.eq
    /\ cmp.refl

\* two containers of different capacities, on different allocators, with
\* different bits beyond their lengths, compared equal
C10_Witness ==
  /\ cmp.done
  /\ cmp.eq
  /\ len = 1
  /\ buf.cap # other.buf.cap
  /\ buf.a # other.buf.a
  /\ buf.cap > len
  /\ other.buf.cap > len
  /\ buf.mem[len + 1] # other.buf.mem[len + 1]

\* the values placed so far, as the items a new() container would be pushed
FillItems == [i \in 1..Len(pushSeq) |-> Elem(i, pushSeq[i])]

\* What holds of a container built by with_capacity(n) that has been given at
\* most n values: it was built with length 0 and capacity at least n, its
\* capacity is the one it was built with, the operation that brought it here
\* asked nothing of the allocator, and its live elements are those of a new()
\* container onto which the same values were pushed one by one.
Prereserved ==
  /\ born.len = 0
  /\ born.cap >= born.n
  /\ buf.cap = born.cap
  /\ pc = "idle" /\ last.st = "ok"
  /\ (last.op \in {"push", "extend"} => ~last.alloc)
  /\ len = Len(pushSeq)
  /\ View(Self) = View(PushAll(Default(buf.a), FillItems))

Overflows(l, extra) ==
  l + extra > UsizeMax \/ (l + extra) * ElemSize > UsizeMax

\* C12: reserve(additional), and resize(new_length) with new_length > length,
\* whose required capacity (length + additional; new_length) is not
\* representable fail with CapacityOverflow, without any call of the
\* allocator, and leave length, capacity and the elements as they were.
C12_OverflowFails ==
  [][ (\/ last'.op = "reserve" /\ Overflows(len, last'.a)
       \/ last'.op = "resize" /\ last'.a > len
            /\ Overflows(len, last'.a - len))
        => /\ last'.st = "CapacityOverflow"
           /\ ~last'.alloc
           /\ Unchanged
    ]_vars

\* reserve failed on a container with elements and a buffer
C12_Witness ==
  /\ last.op = "reserve"
  /\ last.a = UsizeMax
  /\ last.st = "CapacityOverflow"
  /\ len >= 1
  /\ buf.cap > len

\* C13: resize(k) with k > length leaves the length and the live elements as
\* they were, destroys and initializes nothing, and when it returns the
\* capacity is at least k; resize(k) with k = length changes nothing, the
\* capacity included, and asks nothing of the allocator.
C13_ResizeGrows ==
  [][ last'.op = "resize" =>
        /\ last'.a > len =>
              /\ len' = len
              /\ View(Self)' = View(Self)
              /\ live' = live
              /\ log' = <<>>
              /\ last'.st = "ok" => buf'.cap >= last'.a
        /\ last'.a = len =>
              /\ Unchanged
              /\ log' = <<>>
              /\ last'.st = "ok" /\ ~last'.alloc
    ]_vars

\* resize past the length reallocated the buffer of a container with elements
C13_Witness ==
  /\ last.op = "resize"
  /\ last.st = "ok"
  /\ last.alloc
  /\ last.a > len
  /\ len >= 1
  /\ buf.cap >= last.a

\* C14 as stated: when capacity < length + additional, reserve(additional)
\* leaves a capacity of exactly length + additional.  It fails when twice the
\* capacity is more than that.
C14_Original ==
  [][ (last'.op = "reserve" /\ last'.st = "ok" /\ buf.cap < len + last'.a)
        => buf'.cap = len + last'.a
    ]_vars

\* C14, amended: when capacity < length + additional, reserve(additional)
\* leaves a capacity of max(2 * capacity, length + additional): it goes
\* through the amortized reservation of the buffer.  Only extend goes through
\* the exact one: when capacity < length + lower bound and the source yields
\* no more items than its lower bound, extend leaves a capacity of exactly
\* length + lower bound.
C14_ReserveAmortized ==
  [][ /\ (last'.op = "reserve" /\ last'.st = "ok" /\ buf.cap < len + last'.a)
        => buf'.cap = Max(2 * buf.cap, len + last'.a)
      /\ (last'.op = "extend" /\ last'.st = "ok" /\ buf.cap < len + last'.a
             /\ Len(last'.src) <= last'.a)
        => buf'.cap = len + last'.a
    ]_vars

\* reserve left more room than was asked for, on a container with elements
C14_Witness ==
  /\ last.op = "reserve"
  /\ last.st = "ok"
  /\ last.alloc
  /\ len >= 1
  /\ last.a >= 1
  /\ buf.cap > len + last.a

\* push(value) asks the allocator for something only when length = capacity,
\* and otherwise leaves the capacity as it was and cannot fail
PushGrowsWhenFull ==
  /\ last'.alloc <=> len = buf.cap
  /\ len < buf.cap => (buf'.cap = buf.cap /\ last'.st = "ok")

\* C15 as stated: push grows the buffer only when length = capacity, and then
\* to max(1, 2 * capacity), so that capacity 0 becomes 1.  It fails at the
\* first growth of an empty buffer.
C15_Original ==
  [][ last'.op = "push" =>
        /\ PushGrowsWhenFull
        /\ (len = buf.cap /\ last'.st = "ok")
              => buf'.cap = Max(1, 2 * buf.cap)
    ]_vars

\* C15, amended: push grows the buffer only when length = capacity, and then
\* to twice the capacity, or to 4 slots when the capacity is 0; a push with
\* length < capacity leaves the capacity unchanged and asks nothing of the
\* allocator.
C15_PushDoubles ==
  [][ last'.op = "push" =>
        /\ PushGrowsWhenFull
        /\ (len = buf.cap /\ last'.st = "ok")
              => buf'.cap = IF buf.cap = 0 THEN FirstCap ELSE 2 * buf.cap
    ]_vars

\* push doubled a buffer that was full
C15_Witness ==
  /\ last.op = "push"
  /\ last.st = "ok"
  /\ last.alloc
  /\ len >= 2
  /\ buf.cap = 2 * (len - 1)

\* C16: when resize(k) with k < length returns, the capacity is exactly k,
\* whatever it was before, also for k = 0, and the length is k.
C16_ShrinksToFit ==
  [][ (last'.op = "resize" /\ last'.a < len /\ last'.st = "ok")
        => /\ buf'.cap = last'.a
           /\ Len(buf'.mem) = last'.a
           /\ len' = last'.a
    ]_vars

\* resize cut a buffer with spare room down to the elements it kept
C16_Witness ==
  /\ last.op = "resize"
  /\ last.st = "ok"
  /\ last.alloc
  /\ Len(log) >= 1
  /\ last.a >= 1
  /\ buf.cap = last.a
  /\ len = last.a

\* the operations of a container in use
Operations == {"push", "pop", "reserve", "resize", "extend"}

\* C17 as stated: once a container is Allocated (capacity > 0), every push,
\* pop, reserve, resize and extend leaves it Allocated.  It fails for
\* resize(0) on a container with elements, which gives the block back.
C17_Original ==
  [][ (buf.cap > 0 /\ last'.op \in Operations) => buf'.cap > 0 ]_vars

\* C17, amended: a container made by new() starts Empty (length 0, capacity
\* 0), one made by with_capacity(n) starts with capacity n; a container
\* leaves Empty only by a growth, in push, reserve, resize or extend;
\* an Allocated container (capacity > 0) stays Allocated under every
\* operation but one: resize(0) on a container with elements, when it
\* returns, leaves it Empty again; a container is Destroyed only by drop, and
\* nothing happens to a Destroyed container.
C17_Lifecycle ==
  /\ (last.op = "new" => (len = 0 /\ buf.cap = 0 /\ pc = "idle"))
  /\ (last.op = "with_capacity" => (len = 0 /\ buf.cap = last.a))
  /\ [][ /\ pc # "destroyed"
         /\ pc' = "destroyed" <=> last'.op = "drop"
         /\ (buf.cap = 0 /\ buf'.cap > 0)
               => (last'.alloc /\ last'.op \in Operations \ {"pop"})
         /\ (buf.cap > 0 /\ last'.op \in Operations)
               => (buf'.cap = 0 <=>
                     (last'.op = "resize" /\ last'.a = 0 /\ len > 0
                        /\ last'.st = "ok"))
     ]_vars

\* resize(0) gave back the block of a container with elements
C17_Witness ==
  /\ last.op = "resize"
  /\ last.a = 0
  /\ last.st = "ok"
  /\ last.alloc
  /\ Len(log) >= 2
  /\ buf.cap = 0
  /\ pc = "idle"

\* The container is as t, a container that an operation left
Left(t) == len' = t.len /\ buf' = t.buf /\ live' = t.live

\* The growth that failed in extend was the reservation, or the doubling for
\* the item after the first k: the container is as extend leaves it with the
\* first k items alone, and full.
FailedAfter(k) ==
  \E avail \in Avails :
    LET t == extend(Self, SubSeq(last'.src, 1, k), last'.a, avail)
    IN  t.st = "ok" /\ Left(t) /\ t.len = t.buf.cap

\* C18: when the allocator fails during a growth asked by push, reserve,
\* resize or extend, the program is aborted, and capacity, length and live
\* elements are those from before the failing growth: those from before the
\* operation for push, reserve and resize, and for extend either those or
\* the ones that the items pushed before the failing one left.
C18_NoPartialGrowth ==
  [][ last'.st = "OutOfMemory" =>
        /\ pc' = "aborted"
        /\ last'.alloc
        /\ last'.op \in {"push", "reserve"} => Unchanged
        /\ (last'.op = "resize" /\ last'.a > len) => Unchanged
        /\ last'.op = "extend" =>
              \/ Unchanged
              \/ \E k \in 1..(Len(last'.src) - 1) : FailedAfter(k)
    ]_vars

\* extend ran out of memory after it had pushed the first item of its source
C18_Witness ==
  /\ last.op = "extend"
  /\ last.st = "OutOfMemory"
  /\ pc = "aborted"
  /\ Len(last.src) = 2
  /\ last.src[1].id \in live
  /\ len = buf.cap
  /\ len >= 2

C20_LenFirst ==
  /\ pc # "destroyed" =>
        \A i \in 1..len :
          /\ i <= buf.cap
          /\ buf.mem[i].id \in live
          /\ disposed[buf.mem[i].id] = <<>>
  /\ \A id \in DOMAIN disposed :
        (Len(disposed[id]) >= 1 /\ disposed[id][1] = "resize")
          => disposed[id] = <<"resize">>
  /\ (pc = "destroyed" /\ last.kind = "unwinding") =>
        \A e \in {log[j] : j \in 1..Len(log)} :
          e # Released => disposed[e.id] = <<"drop">>

\* resize was cut short after it had destroyed two elements, and the
\* container, dropped while unwinding, destroyed the one that was left
C20_Witness ==
  /\ pc = "destroyed"
  /\ last.kind = "unwinding"
  /\ Len(log) >= 2
  /\ \E i, j, k \in placed :
        /\ i # j
        /\ disposed[i] = <<"resize">>
        /\ disposed[j] = <<"resize">>
        /\ disposed[k] = <<"drop">>

====
